---- MODULE Spec2Model ----
(***************************************************************************)
(* Bank Management API (src/main.py, src/schemas.py).                      *)
(*                                                                         *)
(* The handlers create_customer, create_account, deposit, withdraw and     *)
(* transfer run as concurrent requests against one document store.  Every  *)
(* store call (find_one, update_one, create_document) is one atomic step;  *)
(* the local computation between two store calls belongs to the step of    *)
(* the store call that follows it or, for the precondition checks, to the  *)
(* read that precedes them.  Amounts are integers (the handlers compute on *)
(* floats; the values used here are exactly representable).                *)
(***************************************************************************)
EXTENDS Integers, Sequences, FiniteSets, TLC

\* ------------------------------------------------------------------ bounds
\* Total number of requests served in a behaviour.
MaxCalls == 2

\* ------------------------------------------------------------------ inputs
\* Concurrent request workers.
Procs == {"p1", "p2"}

\* _id values of the stored accounts, one well-formed id that is not stored, and
\* one string that is not a well-formed ObjectId (the id parameters are plain str).
AccountIds == {"A", "B", "C"}
MissingId == "M"
MalformedId == "bad"
Ids == AccountIds \cup {MissingId, MalformedId}

\* payload.amount: DepositWithdrawRequest / TransferRequest put no constraint on it.
Amounts == {-60, 0, 60}

\* payload.customer_id of an account creation: a stored customer, and the id the
\* store gives to the first customer created afterwards.
CustomerIds == {"cust1", "cust3", MalformedId}

\* payload.note (Optional[str], default None).
NoNote == "None"

\* ------------------------------------------------------------------ state
VARIABLES
    customer,       \* db["customer"]: _id -> document
    account,        \* db["account"]: _id -> document
    transaction,    \* db["transaction"]: documents in insertion order
    pc,             \* per request worker: position in its handler
    req,            \* per worker: the request being served
    loc,            \* per worker: the handler's local variables
    ret,            \* per worker: the response of its last finished request
    start,          \* per worker: the store as it was when its request arrived
    quiet,          \* per worker: no other worker has moved since its request arrived
    ncalls          \* requests received so far

vars == <<customer, account, transaction, pc, req, loc, ret, start, quiet, ncalls>>

\* find_one's result when no document matches.
None == [_id |-> "None"]

\* schemas.Customer: a stored customer document.
Customer(id, is_active) == [_id |-> id, is_active |-> is_active]

\* schemas.Account: a stored account document.
Account(id, customer_id, account_type, balance, currency) ==
    [_id |-> id, customer_id |-> customer_id, account_type |-> account_type,
     balance |-> balance, currency |-> currency]

\* Mutant: the amount constraint written ge=0.
TransactionValidGe(amount) == amount >= 0

\* schemas.Transaction, validated: amount must be > 0 (Field(..., gt=0)).
TransactionValid(amount) == amount > 0

\* schemas.Transaction: a ledger entry document.
Transaction(account_id, tx_type, amount, currency, note, to_account_id) ==
    [account_id |-> account_id, tx_type |-> tx_type, amount |-> amount,
     currency |-> currency, note |-> note, to_account_id |-> to_account_id]

\* ------------------------------------------------------------------ store
\* ObjectId(s) returns an id for a well-formed string and raises InvalidId otherwise.
ObjectIdRaises(s) == s = MalformedId

\* db["account"].find_one({"_id": id})
find_one(coll, id) == IF id \in DOMAIN coll THEN coll[id] ELSE None

\* Mutant: the update loses its filter and sets the balance of every document.
update_oneUnfiltered(coll, id, balance) ==
    [x \in DOMAIN coll |-> [coll[x] EXCEPT !.balance = balance]]

\* db["account"].update_one({"_id": id}, {"$set": {"balance": balance}})
update_one(coll, id, balance) ==
    IF id \in DOMAIN coll
    THEN [coll EXCEPT ![id] = [@ EXCEPT !.balance = balance]]
    ELSE coll

\* The _id the store gives to the next document of a collection.
new_id(coll, prefix) == prefix \o ToString(Cardinality(DOMAIN coll) + 1)

\* create_document("customer" | "account", payload): the collection with the
\* new document under its new _id.
create_keyed_document(coll, id, doc) ==
    [x \in DOMAIN coll \cup {id} |-> IF x = id THEN doc ELSE coll[x]]

\* create_document("transaction", tx)
create_document(coll, doc) == Append(coll, doc)

\* ------------------------------------------------------------------ responses
\* return {...}: HTTP 200 with a body.
Ok(body) == [status |-> 200, body |-> body]

\* raise HTTPException(status_code=..., detail=...)
HTTPException(status_code, detail) == [status |-> status_code, body |-> [detail |-> detail]]

\* An exception other than HTTPException raised inside a handler's try block.
Exception(kind) == [exception |-> kind]

\* except Exception as e: if isinstance(e, HTTPException): raise e
\*                        raise HTTPException(status_code=500, detail=str(e))
Except(e) == IF "status" \in DOMAIN e THEN e ELSE HTTPException(500, e.exception)

NoRet == [status |-> 0, body |-> [detail |-> "none"]]
NoReq == [op |-> "none"]
NoLoc == [acc |-> None]
NoStart == [customer |-> << >>, account |-> << >>, transaction |-> << >>]

\* ------------------------------------------------------------------ handler arithmetic
\* Mutant: the deposit leaves the amount out of the new balance.
DepositNewBalanceStale(balance, amount) == balance

\* create_account: if not cust
CustomerNotFound(cust) == cust = None

\* deposit: new_balance = float(acc.get("balance", 0)) + float(payload.amount)
DepositNewBalance(balance, amount) == balance + amount

\* Mutant: the funds test written with >= in place of >.
WithdrawInsufficientGe(amount, current) == amount >= current

\* withdraw: if payload.amount > current
WithdrawInsufficient(amount, current) == amount > current

\* Mutant: the withdrawal adds the amount.
WithdrawNewBalancePlus(current, amount) == current + amount

\* withdraw: new_balance = current - float(payload.amount)
WithdrawNewBalance(current, amount) == current - amount

\* transfer: if not from_acc or not to_acc
TransferNotFound(from_acc, to_acc) == from_acc = None \/ to_acc = None

\* Mutant: the currency test inverted.
TransferCurrencyMismatchInverted(from_acc, to_acc) == from_acc.currency = to_acc.currency

\* transfer: if from_acc.get("currency") != to_acc.get("currency")
TransferCurrencyMismatch(from_acc, to_acc) == from_acc.currency # to_acc.currency

\* transfer: if payload.amount > current
TransferInsufficient(amount, current) == amount > current

\* transfer: {"balance": current - payload.amount}
TransferDebitBalance(current, amount) == current - amount

\* Mutant: the credit subtracts the amount.
TransferCreditBalanceMinus(balance, amount) == balance - amount

\* transfer: {"balance": float(to_acc.get("balance", 0)) + payload.amount}
TransferCreditBalance(balance, amount) == balance + amount

\* transfer: note=f"Transfer from {str(from_acc['_id'])}"
TransferNote(from_id) == <<"Transfer from", from_id>>

\* ------------------------------------------------------------------ initial state
\* The accounts stored before the first request (each created with balance >= 0).
InitAccount ==
    [id \in AccountIds |->
        CASE id = "A" -> Account("A", "cust1", "checking", 100, "USD")
          [] id = "B" -> Account("B", "cust1", "savings", 60, "USD")
          [] id = "C" -> Account("C", "cust2", "checking", 0, "EUR")]

\* The customers stored before the first request.
InitCustomer == [id \in {"cust1", "cust2"} |-> Customer(id, TRUE)]

Init ==
    /\ customer = InitCustomer
    /\ account = InitAccount
    /\ transaction = << >>
    /\ pc = [p \in Procs |-> "idle"]
    /\ req = [p \in Procs |-> NoReq]
    /\ loc = [p \in Procs |-> NoLoc]
    /\ ret = [p \in Procs |-> NoRet]
    /\ start = [p \in Procs |-> NoStart]
    /\ quiet = [p \in Procs |-> FALSE]
    /\ ncalls = 0

\* ------------------------------------------------------------------ step bookkeeping
Resting(p) == pc[p] \in {"idle", "done"}

\* A request arrives at worker p.
Arrive(p, r, first) ==
    /\ Resting(p)
    /\ ncalls < MaxCalls
    /\ ncalls' = ncalls + 1
    /\ req' = [req EXCEPT ![p] = r]
    /\ pc' = [pc EXCEPT ![p] = first]
    /\ loc' = [loc EXCEPT ![p] = NoLoc]
    /\ ret' = [ret EXCEPT ![p] = NoRet]
    /\ start' = [start EXCEPT ![p] = [customer |-> customer, account |-> account,
                                      transaction |-> transaction]]
    /\ quiet' = [q \in Procs |-> q = p]
    /\ UNCHANGED <<customer, account, transaction>>

\* Worker p moves: every other worker's request is no longer alone.
Moved(p) == quiet' = [q \in Procs |-> q = p /\ quiet[q]]

\* Worker p goes on to the next store call of its handler.
Goto(p, next, locals) ==
    /\ pc' = [pc EXCEPT ![p] = next]
    /\ loc' = [loc EXCEPT ![p] = locals]
    /\ Moved(p)
    /\ UNCHANGED <<req, ret, start, ncalls>>

\* Worker p's handler ends with response r; its locals are gone.
Return(p, r) ==
    /\ pc' = [pc EXCEPT ![p] = "done"]
    /\ ret' = [ret EXCEPT ![p] = r]
    /\ loc' = [loc EXCEPT ![p] = NoLoc]
    /\ Moved(p)
    /\ UNCHANGED <<req, start, ncalls>>

\* ------------------------------------------------------------------ customers
\* POST /api/customers
CustomerBegin(p) == Arrive(p, [op |-> "create_customer"], "customer_create")

\* customer_id = create_document("customer", payload); return {"_id": customer_id}
CustomerCreate(p) ==
    /\ pc[p] = "customer_create"
    /\ LET customer_id == new_id(customer, "cust") IN
         /\ customer' = create_keyed_document(customer, customer_id, Customer(customer_id, TRUE))
         /\ Return(p, Ok([_id |-> customer_id]))
    /\ UNCHANGED <<account, transaction>>

\* ------------------------------------------------------------------ accounts
\* POST /api/accounts
AccountBegin(p) ==
    \E customer_id \in CustomerIds :
        Arrive(p, [op |-> "create_account", customer_id |-> customer_id,
                   account_type |-> "checking", balance |-> 0, currency |-> "USD"],
               "account_find_customer")

\* cust = find_one(...); if not cust: 404
AccountFindCustomer(p) ==
    /\ pc[p] = "account_find_customer"
    /\ IF ObjectIdRaises(req[p].customer_id)
       THEN Return(p, Except(Exception("InvalidId")))
       ELSE IF CustomerNotFound(find_one(customer, req[p].customer_id))
       THEN Return(p, Except(HTTPException(404, "Customer not found")))
       ELSE Goto(p, "account_create", NoLoc)
    /\ UNCHANGED <<customer, account, transaction>>

\* account_id = create_document("account", payload); return {"_id": account_id}
AccountCreate(p) ==
    /\ pc[p] = "account_create"
    /\ LET account_id == new_id(account, "N") IN
         /\ account' = create_keyed_document(account, account_id,
                           Account(account_id, req[p].customer_id, req[p].account_type,
                                   req[p].balance, req[p].currency))
         /\ Return(p, Ok([_id |-> account_id]))
    /\ UNCHANGED <<customer, transaction>>

\* ------------------------------------------------------------------ deposit
\* POST /api/transactions/deposit
DepositBegin(p) ==
    \E id \in Ids, amount \in Amounts :
        Arrive(p, [op |-> "deposit", account_id |-> id, amount |-> amount, note |-> NoNote],
               "deposit_find")

\* acc = find_one(...); if not acc: 404
DepositFind(p) ==
    /\ pc[p] = "deposit_find"
    /\ LET acc == find_one(account, req[p].account_id) IN
         IF ObjectIdRaises(req[p].account_id)
         THEN Return(p, Except(Exception("InvalidId")))
         ELSE IF acc = None
         THEN Return(p, Except(HTTPException(404, "Account not found")))
         ELSE Goto(p, "deposit_update", [acc |-> acc])
    /\ UNCHANGED <<customer, account, transaction>>

\* new_balance = ...; update_one(...)
DepositUpdate(p) ==
    /\ pc[p] = "deposit_update"
    /\ LET new_balance == DepositNewBalance(loc[p].acc.balance, req[p].amount) IN
         /\ account' = update_one(account, loc[p].acc._id, new_balance)
         /\ Goto(p, "deposit_record", [acc |-> loc[p].acc, new_balance |-> new_balance])
    /\ UNCHANGED <<customer, transaction>>

\* tx = Transaction(...); create_document("transaction", tx); return {"balance": new_balance}
DepositRecord(p) ==
    /\ pc[p] = "deposit_record"
    /\ IF TransactionValid(req[p].amount)
       THEN /\ transaction' = create_document(transaction,
                  Transaction(loc[p].acc._id, "deposit", req[p].amount,
                              loc[p].acc.currency, req[p].note, "None"))
            /\ Return(p, Ok([balance |-> loc[p].new_balance]))
       ELSE /\ UNCHANGED transaction
            /\ Return(p, Except(Exception("ValidationError")))
    /\ UNCHANGED <<customer, account>>

\* ------------------------------------------------------------------ withdraw
\* POST /api/transactions/withdraw
WithdrawBegin(p) ==
    \E id \in Ids, amount \in Amounts :
        Arrive(p, [op |-> "withdraw", account_id |-> id, amount |-> amount, note |-> NoNote],
               "withdraw_find")

\* acc = find_one(...); if not acc: 404; if payload.amount > current: 400
WithdrawFind(p) ==
    /\ pc[p] = "withdraw_find"
    /\ LET acc == find_one(account, req[p].account_id) IN
         IF ObjectIdRaises(req[p].account_id)
         THEN Return(p, Except(Exception("InvalidId")))
         ELSE IF acc = None
         THEN Return(p, Except(HTTPException(404, "Account not found")))
         ELSE IF WithdrawInsufficient(req[p].amount, acc.balance)
         THEN Return(p, Except(HTTPException(400, "Insufficient funds")))
         ELSE Goto(p, "withdraw_update", [acc |-> acc])
    /\ UNCHANGED <<customer, account, transaction>>

\* new_balance = current - amount; update_one(...)
WithdrawUpdate(p) ==
    /\ pc[p] = "withdraw_update"
    /\ LET new_balance == WithdrawNewBalance(loc[p].acc.balance, req[p].amount) IN
         /\ account' = update_one(account, loc[p].acc._id, new_balance)
         /\ Goto(p, "withdraw_record", [acc |-> loc[p].acc, new_balance |-> new_balance])
    /\ UNCHANGED <<customer, transaction>>

\* tx = Transaction(...); create_document("transaction", tx); return {"balance": new_balance}
WithdrawRecord(p) ==
    /\ pc[p] = "withdraw_record"
    /\ IF TransactionValid(req[p].amount)
       THEN /\ transaction' = create_document(transaction,
                  Transaction(loc[p].acc._id, "withdraw", req[p].amount,
                              loc[p].acc.currency, req[p].note, "None"))
            /\ Return(p, Ok([balance |-> loc[p].new_balance]))
       ELSE /\ UNCHANGED transaction
            /\ Return(p, Except(Exception("ValidationError")))
    /\ UNCHANGED <<customer, account>>

\* ------------------------------------------------------------------ transfer
\* POST /api/transactions/transfer
TransferBegin(p) ==
    \E from_id \in Ids, to_id \in Ids, amount \in Amounts :
        Arrive(p, [op |-> "transfer", from_account_id |-> from_id, to_account_id |-> to_id,
                   amount |-> amount, note |-> NoNote],
               "transfer_find_from")

\* from_acc = find_one(...)
TransferFindFrom(p) ==
    /\ pc[p] = "transfer_find_from"
    /\ IF ObjectIdRaises(req[p].from_account_id)
       THEN Return(p, Except(Exception("InvalidId")))
       ELSE Goto(p, "transfer_find_to", [from_acc |-> find_one(account, req[p].from_account_id)])
    /\ UNCHANGED <<customer, account, transaction>>

\* to_acc = find_one(...); then the three precondition checks
TransferFindTo(p) ==
    /\ pc[p] = "transfer_find_to"
    /\ LET from_acc == loc[p].from_acc
           to_acc == find_one(account, req[p].to_account_id) IN
         IF ObjectIdRaises(req[p].to_account_id)
         THEN Return(p, Except(Exception("InvalidId")))
         ELSE IF TransferNotFound(from_acc, to_acc)
         THEN Return(p, Except(HTTPException(404, "Source or destination account not found")))
         ELSE IF TransferCurrencyMismatch(from_acc, to_acc)
         THEN Return(p, Except(HTTPException(400, "Currency mismatch")))
         ELSE IF TransferInsufficient(req[p].amount, from_acc.balance)
         THEN Return(p, Except(HTTPException(400, "Insufficient funds")))
         ELSE Goto(p, "transfer_debit", [from_acc |-> from_acc, to_acc |-> to_acc])
    /\ UNCHANGED <<customer, account, transaction>>

\* Mutant: the two balance writes swapped, the credit is written first.
TransferDebitCreditsFirst(p) ==
    /\ pc[p] = "transfer_debit"
    /\ account' = update_one(account, loc[p].to_acc._id,
                             TransferCreditBalance(loc[p].to_acc.balance, req[p].amount))
    /\ Goto(p, "transfer_credit", loc[p])
    /\ UNCHANGED <<customer, transaction>>

\* update_one(from_acc, current - amount)
TransferDebit(p) ==
    /\ pc[p] = "transfer_debit"
    /\ account' = update_one(account, loc[p].from_acc._id,
                             TransferDebitBalance(loc[p].from_acc.balance, req[p].amount))
    /\ Goto(p, "transfer_credit", loc[p])
    /\ UNCHANGED <<customer, transaction>>

\* update_one(to_acc, to_acc.balance + amount)
TransferCredit(p) ==
    /\ pc[p] = "transfer_credit"
    /\ account' = update_one(account, loc[p].to_acc._id,
                             TransferCreditBalance(loc[p].to_acc.balance, req[p].amount))
    /\ Goto(p, "transfer_record_out", loc[p])
    /\ UNCHANGED <<customer, transaction>>

\* tx_out = Transaction(...); create_document("transaction", tx_out)
TransferRecordOut(p) ==
    /\ pc[p] = "transfer_record_out"
    /\ IF TransactionValid(req[p].amount)
       THEN /\ transaction' = create_document(transaction,
                  Transaction(loc[p].from_acc._id, "transfer", req[p].amount,
                              loc[p].from_acc.currency, req[p].note, loc[p].to_acc._id))
            /\ Goto(p, "transfer_record_in", loc[p])
       ELSE /\ UNCHANGED transaction
            /\ Return(p, Except(Exception("ValidationError")))
    /\ UNCHANGED <<customer, account>>

\* tx_in = Transaction(...); create_document("transaction", tx_in); return {"status": "ok"}
TransferRecordIn(p) ==
    /\ pc[p] = "transfer_record_in"
    /\ transaction' = create_document(transaction,
          Transaction(loc[p].to_acc._id, "deposit", req[p].amount,
                      loc[p].to_acc.currency, TransferNote(loc[p].from_acc._id), "None"))
    /\ Return(p, Ok([status |-> "ok"]))
    /\ UNCHANGED <<customer, account>>

\* ------------------------------------------------------------------ store faults
\* The store call worker p is about to make raises: except Exception -> HTTP 500.
StoreFault(p) ==
    /\ ~Resting(p)
    /\ Return(p, Except(Exception("StoreError")))
    /\ UNCHANGED <<customer, account, transaction>>

\* ------------------------------------------------------------------ specifications
Next ==
    \E p \in Procs :
        \/ CustomerBegin(p) \/ CustomerCreate(p)
        \/ AccountBegin(p) \/ AccountFindCustomer(p) \/ AccountCreate(p)
        \/ DepositBegin(p) \/ DepositFind(p) \/ DepositUpdate(p) \/ DepositRecord(p)
        \/ WithdrawBegin(p) \/ WithdrawFind(p) \/ WithdrawUpdate(p) \/ WithdrawRecord(p)
        \/ TransferBegin(p) \/ TransferFindFrom(p) \/ TransferFindTo(p)
        \/ TransferDebit(p) \/ TransferCredit(p)
        \/ TransferRecordOut(p) \/ TransferRecordIn(p)

\* Requests against a store that never fails.
Spec == Init /\ [][Next]_vars

NextFault == Next \/ \E p \in Procs : StoreFault(p)

\* Requests against a store whose calls may raise.
FaultSpec == Init /\ [][NextFault]_vars

\* ------------------------------------------------------------------ vocabulary of the properties
Done(p) == pc[p] = "done"

Balance(id) == account[id].balance

\* Balance of account id when worker p's request arrived.
Balance0(p, id) == start[p].account[id].balance

RECURSIVE Total(_, _)
\* Sum of the balances of the accounts S of collection coll.
Total(coll, S) ==
    IF S = {} THEN 0
    ELSE LET id == CHOOSE x \in S : TRUE IN coll[id].balance + Total(coll, S \ {id})

\* Worker p has finished a transfer between two distinct stored accounts and no
\* other worker has moved since the request arrived.
LoneTransfer(p) ==
    /\ Done(p)
    /\ req[p].op = "transfer"
    /\ quiet[p]
    /\ req[p].from_account_id \in AccountIds
    /\ req[p].to_account_id \in AccountIds
    /\ req[p].from_account_id # req[p].to_account_id

\* Worker p has finished a deposit or withdraw on a stored account, alone.
LoneSingle(p, op) ==
    /\ Done(p)
    /\ req[p].op = op
    /\ quiet[p]
    /\ req[p].account_id \in AccountIds

\* The two ledger entries of a completed transfer request r.
TransferEntries(r, coll) ==
    << Transaction(r.from_account_id, "transfer", r.amount,
                   coll[r.from_account_id].currency, r.note, r.to_account_id),
       Transaction(r.to_account_id, "deposit", r.amount,
                   coll[r.to_account_id].currency, TransferNote(r.from_account_id), "None") >>

\* The balances a request r is meant to leave, starting from collection coll.
Intended(r, coll) ==
    CASE r.op = "deposit" ->
           [coll EXCEPT ![r.account_id].balance = @ + r.amount]
      [] r.op = "withdraw" ->
           [coll EXCEPT ![r.account_id].balance = @ - r.amount]
      [] r.op = "transfer" ->
           [coll EXCEPT ![r.from_account_id].balance = @ - r.amount,
                        ![r.to_account_id].balance = @ + r.amount]

\* The ledger entries a request r is meant to append.
IntendedEntries(r, coll) ==
    CASE r.op = "deposit" ->
           << Transaction(r.account_id, "deposit", r.amount,
                          coll[r.account_id].currency, r.note, "None") >>
      [] r.op = "withdraw" ->
           << Transaction(r.account_id, "withdraw", r.amount,
                          coll[r.account_id].currency, r.note, "None") >>
      [] r.op = "transfer" -> TransferEntries(r, coll)

\* The accounts a request names are all stored, and a transfer names two of them.
WellAddressed(r) ==
    CASE r.op = "transfer" ->
           /\ r.from_account_id \in AccountIds
           /\ r.to_account_id \in AccountIds
           /\ r.from_account_id # r.to_account_id
      [] r.op \in {"deposit", "withdraw"} -> r.account_id \in AccountIds
      [] OTHER -> FALSE

\* ------------------------------------------------------------------ C1
\* C1: in every reachable state, the intermediate states of a transfer included,
\* every stored balance is >= 0.
C1_BalanceNeverNegative == \A id \in DOMAIN account : Balance(id) >= 0

\* ------------------------------------------------------------------ C2
\* C2: two concurrent Withdraw(A, 60) on balance 100, the only requests served:
\* once both have ended exactly one succeeded, the other failed with
\* InsufficientFunds, and the balance is 40.
C2_OneOfTwoWithdrawsSucceeds ==
    LET W == [op |-> "withdraw", account_id |-> "A", amount |-> 60, note |-> NoNote] IN
    ( /\ ncalls = 2
      /\ \A p \in Procs : Done(p) /\ req[p] = W /\ Balance0(p, "A") = 100 )
    => /\ Balance("A") = 40
       /\ \E p, q \in Procs :
            /\ p # q
            /\ ret[p] = Ok([balance |-> 40])
            /\ ret[q] = HTTPException(400, "Insufficient funds")

\* ------------------------------------------------------------------ C3
\* C3: two requests with valid amounts, one per worker and the only ones served:
\* once both have ended every balance equals the one a serial execution of the
\* successful requests, in one of the two orders, produces.
C3_Serializable ==
    ( /\ ncalls = 2
      /\ \A p \in Procs :
            /\ Done(p)
            /\ req[p].op \in {"deposit", "withdraw", "transfer"}
            /\ req[p].amount > 0
            /\ req[p].op = "transfer" => req[p].from_account_id # req[p].to_account_id )
    => \E p, q \in Procs :
         /\ p # q
         /\ LET first == IF ret[p].status = 200 THEN Intended(req[p], InitAccount)
                         ELSE InitAccount
                second == IF ret[q].status = 200 THEN Intended(req[q], first) ELSE first
            IN \A id \in AccountIds : Balance(id) = second[id].balance

\* ------------------------------------------------------------------ C4
\* C4: a transfer with a valid amount that has ended, run alone, never leaves
\* exactly one of the two balances changed (store faults included).
C4_TransferNotHalfApplied ==
    \A p \in Procs :
        (LoneTransfer(p) /\ req[p].amount > 0) =>
            ( (Balance(req[p].from_account_id) = Balance0(p, req[p].from_account_id))
              <=> (Balance(req[p].to_account_id) = Balance0(p, req[p].to_account_id)) )

\* ------------------------------------------------------------------ C5
\* The case of C5: a transfer run alone between two distinct stored accounts of
\* one currency, with 0 < amount <= source balance.
C5_Case(p) ==
    /\ LoneTransfer(p)
    /\ start[p].account[req[p].from_account_id].currency
         = start[p].account[req[p].to_account_id].currency
    /\ req[p].amount > 0
    /\ req[p].amount <= Balance0(p, req[p].from_account_id)

\* C5: such a transfer ends with the source at a0 - amt, the destination at
\* b0 + amt, every other account as it was, and exactly two new ledger entries,
\* the transfer entry on the source naming the destination and the deposit
\* entry on the destination whose note names the source.
C5_TransferMovesFunds ==
    \A p \in Procs :
        C5_Case(p) =>
            /\ ret[p] = Ok([status |-> "ok"])
            /\ account = [start[p].account EXCEPT
                            ![req[p].from_account_id].balance = @ - req[p].amount,
                            ![req[p].to_account_id].balance = @ + req[p].amount]
            /\ Total(account, AccountIds) = Total(start[p].account, AccountIds)
            /\ transaction = start[p].transaction \o TransferEntries(req[p], start[p].account)

C5_Witness ==
    \E p \in Procs : C5_Case(p) /\ Len(transaction) = Len(start[p].transaction) + 2

\* ------------------------------------------------------------------ C6
\* C6: when every request served so far is a transfer between two distinct
\* accounts with a valid amount and none is in progress, the total of all
\* balances is the initial total.
C6_TransfersConserveTotal ==
    ( /\ \A p \in Procs :
            /\ Resting(p)
            /\ req[p].op \in {"none", "transfer"}
            /\ req[p].op = "transfer" =>
                  (req[p].amount > 0 /\ req[p].from_account_id # req[p].to_account_id)
      /\ ncalls = Cardinality({p \in Procs : req[p].op # "none"}) )
    => Total(account, AccountIds) = Total(InitAccount, AccountIds)

\* ------------------------------------------------------------------ C7
\* C7: a request with a valid amount that has ended, run alone on stored
\* accounts, has stored all of its balance changes and ledger entries or none
\* of them (store faults included).
C7_AllOrNothing ==
    \A p \in Procs :
        (Done(p) /\ quiet[p] /\ WellAddressed(req[p]) /\ req[p].amount > 0) =>
            \/ /\ account = start[p].account
               /\ transaction = start[p].transaction
            \/ /\ account = Intended(req[p], start[p].account)
               /\ transaction = start[p].transaction \o IntendedEntries(req[p], start[p].account)

\* ------------------------------------------------------------------ C8
\* C8: a request on stored accounts whose amount is not strictly positive ends
\* with HTTP 400 and, run alone, leaves balances and ledger as they were.
C8_NonPositiveAmountRejected ==
    \A p \in Procs :
        (Done(p) /\ WellAddressed(req[p]) /\ req[p].amount <= 0) =>
            /\ ret[p].status = 400
            /\ quiet[p] => (account = start[p].account /\ transaction = start[p].transaction)

\* ------------------------------------------------------------------ C9
\* The case of C9: a finished transfer between two stored accounts of different
\* currencies.
C9_Case(p) ==
    /\ Done(p)
    /\ req[p].op = "transfer"
    /\ req[p].from_account_id \in AccountIds
    /\ req[p].to_account_id \in AccountIds
    /\ account[req[p].from_account_id].currency # account[req[p].to_account_id].currency

\* C9: such a transfer fails with CurrencyMismatch (HTTP 400) whatever the amount
\* and the source balance, and, run alone, leaves every balance and the ledger
\* as they were.
C9_CurrencyMismatchRejected ==
    \A p \in Procs :
        C9_Case(p) =>
            /\ ret[p] = HTTPException(400, "Currency mismatch")
            /\ quiet[p] => (account = start[p].account /\ transaction = start[p].transaction)

C9_Witness ==
    \E p \in Procs :
        /\ C9_Case(p)
        /\ quiet[p]
        /\ req[p].amount > 0
        /\ req[p].amount <= Balance0(p, req[p].from_account_id)

\* ------------------------------------------------------------------ C10
\* The case of C10: a withdraw with amount > 0 run alone on a stored account.
C10_Case(p) == LoneSingle(p, "withdraw") /\ req[p].amount > 0

\* C10: it succeeds exactly when amount <= balance, leaving balance - amount (0
\* when they are equal) and one withdraw entry; otherwise it fails with
\* InsufficientFunds (HTTP 400) and leaves balances and ledger as they were.
C10_WithdrawBoundary ==
    \A p \in Procs :
        C10_Case(p) =>
            IF req[p].amount <= Balance0(p, req[p].account_id)
            THEN /\ ret[p] = Ok([balance |-> Balance0(p, req[p].account_id) - req[p].amount])
                 /\ account = Intended(req[p], start[p].account)
                 /\ transaction = start[p].transaction \o IntendedEntries(req[p], start[p].account)
            ELSE /\ ret[p] = HTTPException(400, "Insufficient funds")
                 /\ account = start[p].account
                 /\ transaction = start[p].transaction

C10_Witness ==
    \E p \in Procs :
        /\ C10_Case(p)
        /\ req[p].amount = Balance0(p, req[p].account_id)
        /\ Balance(req[p].account_id) = 0

\* ------------------------------------------------------------------ C11
\* The case of C11: worker p finished Deposit(id, amt), amt > 0, on an account
\* whose balance was zero; worker q's Withdraw(id, amt) arrived after the
\* deposit had returned, with nothing else in between, and has finished.
C11_Case(p, q) ==
    /\ p # q
    /\ Done(p) /\ req[p].op = "deposit"
    /\ Done(q) /\ req[q].op = "withdraw"
    /\ req[p].account_id \in AccountIds
    /\ req[q].account_id = req[p].account_id
    /\ req[p].amount > 0
    /\ req[q].amount = req[p].amount
    /\ Balance0(p, req[p].account_id) = 0
    /\ start[q].account = Intended(req[p], start[p].account)
    /\ start[q].transaction = start[p].transaction \o IntendedEntries(req[p], start[p].account)

\* C11: Deposit(id, amt) then Withdraw(id, amt) on an initially-zero account
\* both succeed, the balance is zero again, every other account is as it was,
\* and exactly two entries were added: the deposit, then the withdraw.
C11_DepositThenWithdraw ==
    \A p, q \in Procs :
        C11_Case(p, q) =>
            /\ ret[p] = Ok([balance |-> req[p].amount])
            /\ ret[q] = Ok([balance |-> 0])
            /\ Balance(req[p].account_id) = 0
            /\ account = start[p].account
            /\ transaction = start[p].transaction
                               \o IntendedEntries(req[p], start[p].account)
                               \o IntendedEntries(req[q], start[q].account)
            /\ Len(transaction) = Len(start[p].transaction) + 2

C11_Witness == \E p, q \in Procs : C11_Case(p, q)

\* ------------------------------------------------------------------ C12
\* The case of C12: a deposit with amount > 0 run alone on a stored account.
C12_Case(p) == LoneSingle(p, "deposit") /\ req[p].amount > 0

\* C12: it stores previous balance + amount, returns that balance, and appends
\* exactly one deposit entry on the account with its currency and the amount.
C12_DepositEffect ==
    \A p \in Procs :
        C12_Case(p) =>
            /\ ret[p] = Ok([balance |-> Balance0(p, req[p].account_id) + req[p].amount])
            /\ account = Intended(req[p], start[p].account)
            /\ transaction = start[p].transaction \o
                  << Transaction(req[p].account_id, "deposit", req[p].amount,
                                 start[p].account[req[p].account_id].currency,
                                 req[p].note, "None") >>

C12_Witness ==
    \E p \in Procs : C12_Case(p) /\ Balance(req[p].account_id) = 160

\* ------------------------------------------------------------------ C16
\* The case of C16: a transfer between two distinct stored accounts with no
\* other worker moving since it arrived.
C16_Case(p) == req[p].op = "transfer" /\ quiet[p] /\ WellAddressed(req[p])

\* The store after the debit of transfer request r alone.
Debited(r, coll) == [coll EXCEPT ![r.from_account_id].balance = @ - r.amount]

\* C16: the writes are stored in the order debit, credit, transfer entry,
\* deposit entry: before each write exactly the earlier ones are stored, and
\* the success marker is returned only with all four stored.
C16_TransferWriteOrder ==
    \A p \in Procs :
        C16_Case(p) =>
            LET r == req[p]
                a0 == start[p].account
                t0 == start[p].transaction
                entries == TransferEntries(r, a0)
            IN /\ pc[p] = "transfer_debit" => (account = a0 /\ transaction = t0)
               /\ pc[p] = "transfer_credit" => (account = Debited(r, a0) /\ transaction = t0)
               /\ pc[p] = "transfer_record_out" => (account = Intended(r, a0) /\ transaction = t0)
               /\ pc[p] = "transfer_record_in" =>
                    (account = Intended(r, a0) /\ transaction = Append(t0, entries[1]))
               /\ (Done(p) /\ ret[p] = Ok([status |-> "ok"])) =>
                    (account = Intended(r, a0) /\ transaction = t0 \o entries)

C16_Witness ==
    \E p \in Procs :
        /\ C16_Case(p)
        /\ pc[p] = "transfer_record_in"
        /\ Len(transaction) = Len(start[p].transaction) + 1

\* ------------------------------------------------------------------ C17
\* C17: a transfer from a stored account to itself with 0 < amount <= balance,
\* run alone, leaves the balance as it was once it has ended.
C17_SelfTransferKeepsBalance ==
    \A p \in Procs :
        ( /\ Done(p)
          /\ req[p].op = "transfer"
          /\ quiet[p]
          /\ req[p].from_account_id \in AccountIds
          /\ req[p].to_account_id = req[p].from_account_id
          /\ req[p].amount > 0
          /\ req[p].amount <= Balance0(p, req[p].from_account_id) )
        => Balance(req[p].from_account_id) = Balance0(p, req[p].from_account_id)

\* ------------------------------------------------------------------ C18
\* Transfer request r names an id that is not stored (well-formed or not).
NamesMissing(r) == r.from_account_id \notin AccountIds \/ r.to_account_id \notin AccountIds

\* The two accounts transfer request r names have different currencies.
CurrenciesDiffer(r) ==
    account[r.from_account_id].currency # account[r.to_account_id].currency

\* C18: a finished transfer reports the first failing precondition in the order
\* NotFound, CurrencyMismatch, InsufficientFunds, and with any of these
\* outcomes, run alone, it has written nothing.
C18_PreconditionOrder ==
    \A p \in Procs :
        (Done(p) /\ req[p].op = "transfer") =>
            /\ IF NamesMissing(req[p])
               THEN ret[p] = HTTPException(404, "Source or destination account not found")
               ELSE IF CurrenciesDiffer(req[p])
               THEN ret[p] = HTTPException(400, "Currency mismatch")
               ELSE (quiet[p] /\ req[p].amount > Balance0(p, req[p].from_account_id))
                      => ret[p] = HTTPException(400, "Insufficient funds")
            /\ (quiet[p] /\ ret[p].status \in {400, 404})
                 => (account = start[p].account /\ transaction = start[p].transaction)

\* ------------------------------------------------------------------ C14
\* C14: across every step the ledger keeps every entry it had, unchanged and in
\* place (it only grows), and every stored entry has amount > 0.
C14_LedgerAppendOnly ==
    [][ /\ Len(transaction') >= Len(transaction)
        /\ SubSeq(transaction', 1, Len(transaction)) = transaction
        /\ \A i \in 1..Len(transaction') : transaction'[i].amount > 0 ]_vars

C14_Witness == Len(transaction) >= 3

\* ------------------------------------------------------------------ C19
\* The account ids a money-moving request names.
Named(r) ==
    CASE r.op \in {"deposit", "withdraw"} -> {r.account_id}
      [] r.op = "transfer" -> {r.from_account_id, r.to_account_id}
      [] OTHER -> {}

\* C19: a step changes an account document only if the acting worker's request
\* is a deposit, withdraw or transfer naming that account, and then it changes
\* the balance only: currency, type and owning customer stay as they were and
\* no account disappears.
C19_Frame ==
    [][ \A id \in DOMAIN account :
          /\ id \in DOMAIN account'
          /\ account'[id] # account[id] =>
               \E p \in Procs :
                  /\ pc'[p] # pc[p]
                  /\ id \in Named(req[p])
                  /\ account'[id] = [account[id] EXCEPT !.balance = account'[id].balance] ]_vars

C19_Witness ==
    \E p \in Procs :
        /\ pc[p] = "transfer_record_out"
        /\ account # start[p].account
        /\ quiet[p]

\* ------------------------------------------------------------------ C13
\* The case of C13: a finished deposit, withdraw or transfer naming an account
\* id that is not stored, whether or not the string is a well-formed ObjectId.
C13_Case(p) ==
    /\ Done(p)
    /\ req[p].op \in {"deposit", "withdraw", "transfer"}
    /\ Named(req[p]) \ AccountIds # {}

\* C13: it fails with NotFound (HTTP 404) and, run alone, leaves every balance
\* and the ledger as they were.
C13_NotFound ==
    \A p \in Procs :
        C13_Case(p) =>
            /\ ret[p] = HTTPException(404,
                          IF req[p].op = "transfer"
                          THEN "Source or destination account not found"
                          ELSE "Account not found")
            /\ quiet[p] => (account = start[p].account /\ transaction = start[p].transaction)

\* ------------------------------------------------------------------ C15
\* The case of C15: a finished account creation.
C15_Case(p) == Done(p) /\ req[p].op = "create_account"

\* C15: an account is stored by the call only for a customer that exists; run
\* alone, the call stores exactly one new account, owned by that customer, when
\* the customer existed, and otherwise fails with HTTP 404 and stores none.
C15_AccountNeedsCustomer ==
    \A p \in Procs :
        C15_Case(p) =>
            /\ ret[p].status \in {200, 404}
            /\ ret[p].status = 200 =>
                 /\ req[p].customer_id \in DOMAIN customer
                 /\ ret[p].body._id \in DOMAIN account
                 /\ account[ret[p].body._id].customer_id = req[p].customer_id
            /\ quiet[p] =>
                 IF req[p].customer_id \in DOMAIN start[p].customer
                 THEN /\ ret[p].status = 200
                      /\ ret[p].body._id \notin DOMAIN start[p].account
                      /\ DOMAIN account = DOMAIN start[p].account \cup {ret[p].body._id}
                      /\ \A id \in DOMAIN start[p].account : account[id] = start[p].account[id]
                 ELSE /\ ret[p] = HTTPException(404, "Customer not found")
                      /\ account = start[p].account

====
